---- MODULE Spec2Model ----
(***************************************************************************)
(* Epoch-boundary settlement of governance proposals                       *)
(* (apps/src/lib/node/ledger/shell/governance.rs).                         *)
(*                                                                         *)
(* execute_governance_proposals is modelled step by step: the position of  *)
(* the call inside the function body is `pc`, its locals are `local`, and  *)
(* every step is forced by the position (the block-processing path is      *)
(* single threaded, so nothing else runs while pc # "idle").               *)
(***************************************************************************)
EXTENDS Integers, Sequences, FiniteSets, TLC

\* ---------------------------------------------------------------- bounds
MaxProposals == 2          \* proposal ids are 1..MaxProposals
MaxEpoch == 1              \* voting start epochs are 0..MaxEpoch
MaxSigningEpoch == 1       \* vote extensions are signed at epochs 0..MaxSigningEpoch

\* ------------------------------------------------------------- constants
gov_address == "governance"
treasury_address == "treasury"
Ids == 1..MaxProposals

\* Every proposal has its own author account.
AuthorNames == <<"author1", "author2", "author3", "author4">>
AuthorOf(id) == AuthorNames[id]
Authors == {AuthorOf(id) : id \in Ids}
Addresses == {gov_address, treasury_address} \cup Authors

\* Option<T>: None is the empty sequence, Some(v) the one-element sequence.
None == <<>>
Some(v) == <<v>>
IsSome(o) == Len(o) = 1
Unwrap(o) == o[1]

SeqToSet(s) == {s[i] : i \in 1..Len(s)}

\* ------------------------------------------------------------------ state
VARIABLES
    proposal_data,     \* shell.proposal_data: the pending proposal ids
    storage,           \* shell.storage: proposal fields, marker keys, balances
    write_log,         \* shell.write_log: block-level and tx-level writes
    response,          \* response.events of the block being finalized
    pc,                \* position of the call in execute_governance_proposals
    local,             \* locals of the running call
    ret,               \* what the last call returned
    pre,               \* the shell as it was when the last call was entered
    trace,             \* the operations the last call performed, in order
    wl_storage,        \* what validate_valset_upd_vext reads: last block, proofs seen, validator sets
    vcall              \* the last call of validate_valset_upd_vext and its result

shell_vars == <<proposal_data, storage, write_log, response, pc, local, ret, pre, trace>>
vext_vars == <<wl_storage, vcall>>
vars == <<proposal_data, storage, write_log, response, pc, local, ret, pre, trace,
          wl_storage, vcall>>

\* ------------------------------------------------------------ tally engine
\* Total voting power bonded at an epoch: no validators at epoch 0.
TotalStake(epoch) == 3 * epoch

get_proposal_votes(st, epoch, id) == st.votes[id]

compute_tally(epoch, votes) ==
    IF TotalStake(epoch) = 0 THEN "Unknown"
    ELSE IF 3 * votes >= 2 * TotalStake(epoch) THEN "Passed"
    ELSE "Rejected"

\* ------------------------------------------------------------ storage API
read_funds(st, id) == st.funds[id]
read_start_epoch(st, id) == st.start_epoch[id]
read_author(st, id) == st.author[id]
read_code(st, id) == st.code[id]

\* Storage::transfer: debit src, credit dest.
transfer(st, amount, src, dest) ==
    [st EXCEPT !.balances =
        [a \in Addresses |->
            st.balances[a]
            - (IF a = src THEN amount ELSE 0)
            + (IF a = dest THEN amount ELSE 0)]]

\* WriteLog::commit_tx / drop_tx: the tx-level writes are merged into the
\* block-level writes, or discarded.
commit_tx(wl) == [block |-> wl.block \cup wl.tx, tx |-> {}]
drop_tx(wl) == [block |-> wl.block, tx |-> {}]

\* protocol::apply_tx: the writes of the code of proposal id go to the tx
\* level of the write log.
apply_tx(wl, id) == [wl EXCEPT !.tx = @ \cup {id}]
TxResults == {"accepted", "rejected", "error"}

ProposalEvent(tally, id, has_code, accepted) ==
    [tally_result |-> tally, proposal_id |-> id,
     has_code |-> has_code, code_accepted |-> accepted]

\* ------------------------------------- decisions of the coordinator's code
\* if !new_epoch { return Ok(proposals_result); }
early_return_never(new_epoch) == FALSE
early_return(new_epoch) == ~new_epoch

\* std::mem::take(&mut shell.proposal_data): what is iterated, what is left.
take_clone(pd) == [taken |-> pd, left |-> pd]
take_all_but_taken(pd) == [taken |-> pd, left |-> IF pd = <<>> THEN <<>> ELSE Tail(pd)]
take(pd) == [taken |-> pd, left |-> <<>>]

\* The two `?` on the mandatory fields, and the error they return.
bad_proposal(funds, start_epoch) == ~IsSome(funds) \/ ~IsSome(start_epoch)

BadProposal_swallowed(id) == [kind |-> "Ok", id |-> 0]
BadProposal(id) == [kind |-> "BadProposal", id |-> id]

\* The pending-execution key is written before and deleted after apply_tx.
write_pending_execution(st, id) ==
    [st EXCEPT !.pending_execution = @ \cup {id}]

delete_pending_execution_forgotten(st, id) == st

delete_pending_execution(st, id) ==
    [st EXCEPT !.pending_execution = @ \ {id}]

\* What each arm of the two matches does: the write-log operation, the
\* event pushed, the bucket the id is pushed to, the transfer address.
Outcome(log, event, bucket, addr) ==
    [log |-> log, event |-> event, bucket |-> bucket, transfer_address |-> addr]

\* accepted, but the nested transaction is dropped
on_tx_result_drops_accepted(tx_result, id, proposal_author) ==
    IF tx_result = "accepted"
    THEN Outcome("drop_tx", ProposalEvent("Passed", id, TRUE, TRUE),
                 "passed", proposal_author)
    ELSE Outcome("drop_tx", ProposalEvent("Passed", id, TRUE, FALSE),
                 "rejected", treasury_address)

\* Ok(_) taken for accepted: only a runtime error is treated as a failure
on_tx_result_ignores_is_accepted(tx_result, id, proposal_author) ==
    IF tx_result # "error"
    THEN Outcome("commit_tx", ProposalEvent("Passed", id, TRUE, TRUE),
                 "passed", proposal_author)
    ELSE Outcome("drop_tx", ProposalEvent("Passed", id, TRUE, FALSE),
                 "rejected", treasury_address)

\* a rejected result still commits its writes
on_tx_result_commits_rejected(tx_result, id, proposal_author) ==
    IF tx_result = "accepted"
    THEN Outcome("commit_tx", ProposalEvent("Passed", id, TRUE, TRUE),
                 "passed", proposal_author)
    ELSE Outcome(IF tx_result = "rejected" THEN "commit_tx" ELSE "drop_tx",
                 ProposalEvent("Passed", id, TRUE, FALSE),
                 "rejected", treasury_address)

on_tx_result(tx_result, id, proposal_author) ==
    IF tx_result = "accepted"
    THEN Outcome("commit_tx", ProposalEvent("Passed", id, TRUE, TRUE),
                 "passed", proposal_author)
    ELSE Outcome("drop_tx", ProposalEvent("Passed", id, TRUE, FALSE),
                 "rejected", treasury_address)

on_no_code_to_treasury(id, proposal_author) ==
    Outcome("none", ProposalEvent("Passed", id, FALSE, FALSE),
            "passed", treasury_address)

on_no_code(id, proposal_author) ==
    Outcome("none", ProposalEvent("Passed", id, FALSE, FALSE),
            "passed", proposal_author)

on_not_passed_in_passed(id) ==
    Outcome("none", ProposalEvent("Rejected", id, FALSE, FALSE),
            "passed", treasury_address)

on_not_passed(id) ==
    Outcome("none", ProposalEvent("Rejected", id, FALSE, FALSE),
            "rejected", treasury_address)

\* shell.storage.transfer(&m1t(), funds, &gov_address, &transfer_address)
transfer_funds_swapped(st, funds, transfer_address) ==
    transfer(st, funds, transfer_address, gov_address)

transfer_funds_author_only(st, funds, transfer_address) ==
    IF transfer_address = treasury_address THEN st
    ELSE transfer(st, funds, gov_address, transfer_address)

transfer_funds(st, funds, transfer_address) ==
    transfer(st, funds, gov_address, transfer_address)

Op(name, id, amount, dest) == <<name, id, amount, dest>>

NoLocal ==
    [drained |-> <<>>, id |-> 0, funds |-> 0, tally_result |-> "-",
     proposal_author |-> "-", tx_result |-> "-", transfer_address |-> "-",
     passed |-> <<>>, rejected |-> <<>>]

NoRet == [kind |-> "-", id |-> 0, passed |-> <<>>, rejected |-> <<>>]

Snapshot(new_epoch) ==
    [called |-> TRUE, new_epoch |-> new_epoch,
     follows_boundary_call |-> (ret.kind # "-" /\ pre.new_epoch),
     proposal_data |-> proposal_data,
     storage |-> storage, write_log |-> write_log, events |-> response]

\* Nothing is remembered of a call once the block-finalization driver has
\* consumed its result.
NoPre ==
    [called |-> FALSE, new_epoch |-> FALSE, follows_boundary_call |-> FALSE,
     proposal_data |-> <<>>, storage |-> <<>>, write_log |-> <<>>,
     events |-> <<>>]

\* ------------------------------------------------------------------- Init
InitShell ==
    /\ proposal_data = <<>>
    /\ storage = [funds |-> [i \in Ids |-> None],
                  start_epoch |-> [i \in Ids |-> None],
                  author |-> [i \in Ids |-> None],
                  code |-> [i \in Ids |-> None],
                  votes |-> [i \in Ids |-> 0],
                  created |-> {},
                  pending_execution |-> {},
                  balances |-> [a \in Addresses |-> 0]]
    /\ write_log = [block |-> {}, tx |-> {}]
    /\ response = <<>>
    /\ pc = "idle"
    /\ local = NoLocal
    /\ ret = NoRet
    /\ pre = NoPre
    /\ trace = <<>>

\* No vote extension is validated while proposals are settled.
NoVext == [called |-> FALSE, ext |-> <<>>, last_epoch |-> 0, result |-> "-"]

NoWlStorage == [last_block |-> FALSE, valset_upd_seen |-> {}, consensus |-> <<>>]

Init ==
    /\ InitShell
    /\ wl_storage = NoWlStorage
    /\ vcall = NoVext

\* ------------------------------------------------------------ environment
Opt(S) == {None} \cup {Some(x) : x \in S}

Missing(p) ==
    Cardinality({f \in {"funds", "start_epoch", "author", "code"} : ~IsSome(p[f])})

\* The amount escrowed for proposal id: different proposals lock different
\* amounts.
FundsOf(id) == id

\* What storage may hold for proposal id: at most one of its fields is
\* unreadable, and only stake bonded at the start epoch can have voted.
ProposalInputs(id) ==
    {p \in [funds : Opt({FundsOf(id)}), start_epoch : Opt(0..MaxEpoch),
            author : Opt({AuthorOf(id)}), code : Opt({"code"}),
            votes : {0} \cup {TotalStake(e) : e \in 0..MaxEpoch}] :
        /\ Missing(p) <= 1
        /\ p.votes \in (IF IsSome(p.start_epoch)
                        THEN {0, TotalStake(Unwrap(p.start_epoch))} ELSE {0})}

\* A new block begins (with a fresh response) in which a proposal whose
\* voting period is over is queued for the next epoch transition.  The
\* proposal was created earlier: its fields are in storage and its funds in
\* the governance escrow.
AddProposal ==
    /\ UNCHANGED vext_vars
    /\ pc = "idle"
    /\ \E id \in Ids \ storage.created :
       \E p \in ProposalInputs(id) :
          /\ storage' = [storage EXCEPT
                !.created = @ \cup {id},
                !.funds[id] = p.funds,
                !.start_epoch[id] = p.start_epoch,
                !.author[id] = p.author,
                !.code[id] = p.code,
                !.votes[id] = p.votes,
                !.balances[gov_address] =
                    @ + (IF IsSome(p.funds) THEN Unwrap(p.funds) ELSE 0)]
          /\ proposal_data' = Append(proposal_data, id)
    /\ response' = <<>>
    /\ ret' = NoRet
    /\ pre' = NoPre
    /\ trace' = <<>>
    /\ UNCHANGED <<write_log, pc, local>>

\* ---------------------------------------------- execute_governance_proposals
Return(kind, id, passed, rejected) ==
    /\ ret' = [kind |-> kind, id |-> id, passed |-> passed, rejected |-> rejected]
    /\ pc' = "idle"
    /\ local' = NoLocal

\* The arm resolves the transfer address with the nested transaction still
\* open: neither commit_tx nor drop_tx is called.
Settle_leaves_tx_open(l, id, o) ==
    /\ write_log' = write_log
    /\ response' = Append(response, o.event)
    /\ local' = [l EXCEPT ![o.bucket] = Append(@, id),
                          !.transfer_address = o.transfer_address]
    /\ trace' = trace \o << Op("event", id, 0, "-"), Op(o.bucket, id, 0, "-") >>
    /\ pc' = "transfer"

\* An event is pushed only for a proposal whose code was dispatched.
Settle_silent_without_code(l, id, o) ==
    /\ write_log' = CASE o.log = "commit_tx" -> commit_tx(write_log)
                      [] o.log = "drop_tx" -> drop_tx(write_log)
                      [] OTHER -> write_log
    /\ response' = IF o.log = "none" THEN response ELSE Append(response, o.event)
    /\ local' = [l EXCEPT ![o.bucket] = Append(@, id),
                          !.transfer_address = o.transfer_address]
    /\ trace' = trace
                \o (IF o.log = "none" THEN <<>> ELSE << Op(o.log, id, 0, "-") >>)
                \o << Op("event", id, 0, "-"), Op(o.bucket, id, 0, "-") >>
    /\ pc' = "transfer"

\* An arm of the match ends: its write-log operation is done, its event and
\* its bucket entry are pushed, and the transfer address is resolved.
Settle(l, id, o) ==
    /\ write_log' = CASE o.log = "commit_tx" -> commit_tx(write_log)
                      [] o.log = "drop_tx" -> drop_tx(write_log)
                      [] OTHER -> write_log
    /\ response' = Append(response, o.event)
    /\ local' = [l EXCEPT ![o.bucket] = Append(@, id),
                          !.transfer_address = o.transfer_address]
    /\ trace' = trace
                \o (IF o.log = "none" THEN <<>> ELSE << Op(o.log, id, 0, "-") >>)
                \o << Op("event", id, 0, "-"), Op(o.bucket, id, 0, "-") >>
    /\ pc' = "transfer"

\* Entry: lines 31-40.
Call ==
    /\ UNCHANGED vext_vars
    /\ pc = "idle"
    /\ \E new_epoch \in BOOLEAN :
        /\ pre' = Snapshot(new_epoch)
        /\ trace' = <<>>
        /\ IF early_return(new_epoch)
           THEN /\ Return("Ok", 0, <<>>, <<>>)
                /\ UNCHANGED <<proposal_data, storage, write_log, response>>
           ELSE /\ local' = [NoLocal EXCEPT !.drained = take(proposal_data).taken]
                /\ proposal_data' = take(proposal_data).left
                /\ pc' = "loop"
                /\ ret' = NoRet
                /\ UNCHANGED <<storage, write_log, response>>

\* One turn of the for loop, up to the dispatch of the code or, when no
\* code is dispatched, to the resolution of the transfer address:
\* lines 40-89, 156-169 and 172-186.
LoopStep ==
    /\ UNCHANGED vext_vars
    /\ pc = "loop"
    /\ UNCHANGED <<proposal_data, pre>>
    /\ IF local.drained = <<>>
       THEN /\ Return("Ok", 0, local.passed, local.rejected)
            /\ UNCHANGED <<storage, write_log, response, trace>>
       ELSE
        LET id == Head(local.drained)
            funds == read_funds(storage, id)
            start_epoch == read_start_epoch(storage, id)
        IN
        IF bad_proposal(funds, start_epoch)
        THEN /\ Return(BadProposal(id).kind, BadProposal(id).id, <<>>, <<>>)
             /\ UNCHANGED <<storage, write_log, response, trace>>
        ELSE
        LET votes == get_proposal_votes(storage, Unwrap(start_epoch), id)
            tally_result == compute_tally(Unwrap(start_epoch), votes)
            l1 == [local EXCEPT !.drained = Tail(local.drained), !.id = id,
                                !.funds = Unwrap(funds),
                                !.tally_result = tally_result,
                                !.tx_result = "-",
                                !.proposal_author = "-",
                                !.transfer_address = "-"]
        IN
        IF tally_result = "Passed"
        THEN
            LET proposal_author == read_author(storage, id)
                proposal_code == read_code(storage, id)
                l2 == [l1 EXCEPT !.proposal_author = Unwrap(proposal_author)]
            IN
            IF ~IsSome(proposal_author)
            THEN /\ Return(BadProposal(id).kind, BadProposal(id).id, <<>>, <<>>)
                 /\ UNCHANGED <<storage, write_log, response, trace>>
            ELSE IF IsSome(proposal_code)
            THEN /\ storage' = write_pending_execution(storage, id)
                 /\ trace' = Append(trace, Op("marker_write", id, 0, "-"))
                 /\ local' = l2
                 /\ pc' = "apply_tx"
                 /\ UNCHANGED <<write_log, response, ret>>
            ELSE /\ Settle(l2, id, on_no_code(id, Unwrap(proposal_author)))
                 /\ UNCHANGED <<storage, ret>>
        ELSE /\ Settle(l1, id, on_not_passed(id))
             /\ UNCHANGED <<storage, ret>>

\* protocol::apply_tx runs the proposal code and ends accepted, rejected or
\* with an error: lines 90-100.
ApplyTx ==
    /\ UNCHANGED vext_vars
    /\ pc = "apply_tx"
    /\ \E r \in TxResults :
        local' = [local EXCEPT !.tx_result = r]
    /\ write_log' = apply_tx(write_log, local.id)
    /\ trace' = Append(trace, Op("apply_tx", local.id, 0, "-"))
    /\ pc' = "delete"
    /\ UNCHANGED <<proposal_data, storage, response, ret, pre>>

\* Lines 101-104.
DeleteMarker ==
    /\ UNCHANGED vext_vars
    /\ pc = "delete"
    /\ storage' = delete_pending_execution(storage, local.id)
    /\ trace' = Append(trace, Op("marker_delete", local.id, 0, "-"))
    /\ pc' = "match"
    /\ UNCHANGED <<proposal_data, write_log, response, local, ret, pre>>

\* match tx_result: lines 105-154.
MatchTxResult ==
    /\ UNCHANGED vext_vars
    /\ pc = "match"
    /\ Settle(local, local.id,
              on_tx_result(local.tx_result, local.id, local.proposal_author))
    /\ UNCHANGED <<proposal_data, storage, ret, pre>>

\* transfer proposal locked funds: lines 188-191.
Transfer ==
    /\ UNCHANGED vext_vars
    /\ pc = "transfer"
    /\ storage' = transfer_funds(storage, local.funds, local.transfer_address)
    /\ trace' = Append(trace, Op("transfer", local.id, local.funds, local.transfer_address))
    /\ pc' = "loop"
    /\ UNCHANGED <<proposal_data, write_log, response, local, ret, pre>>

Next ==
    \/ AddProposal
    \/ Call
    \/ LoopStep
    \/ ApplyTx
    \/ DeleteMarker
    \/ MatchTxResult
    \/ Transfer

Spec == Init /\ [][Next]_vars

\* ------------------------------------------------------------- properties
StoredFunds(id) == Unwrap(storage.funds[id])
StoredAuthor(id) == Unwrap(storage.author[id])
TallyOf(id) == compute_tally(Unwrap(storage.start_epoch[id]), storage.votes[id])

\* This step moves amount from the governance escrow to dest, and nothing else.
Moves(amount, dest) ==
    /\ dest # gov_address
    /\ storage'.balances[gov_address] = storage.balances[gov_address] - amount
    /\ storage'.balances[dest] = storage.balances[dest] + amount
    /\ \A a \in Addresses \ {gov_address, dest} :
          storage'.balances[a] = storage.balances[a]

\* The id under settlement: its code was dispatched and returned r.
CodeReturned(r) ==
    /\ local.id \in Ids
    /\ TallyOf(local.id) = "Passed"
    /\ IsSome(storage.code[local.id])
    /\ local.tx_result = r

OpsIn(tr, id) == {tr[i][1] : i \in {j \in 1..Len(tr) : tr[j][2] = id}}

\* C1: a Passed proposal whose code is accepted has its nested transaction
\* committed, is pushed to `passed` only, gets the event (Passed, has_code,
\* accepted), and its funds go from the escrow to its author.
C1_AcceptedCode ==
    [][ /\ (pc = "match" /\ CodeReturned("accepted")) =>
            /\ write_log'.block = write_log.block \cup write_log.tx
            /\ local.id \in write_log'.block
            /\ write_log'.tx = {}
            /\ response' = Append(response,
                                  ProposalEvent("Passed", local.id, TRUE, TRUE))
            /\ local'.passed = Append(local.passed, local.id)
            /\ local'.rejected = local.rejected
            /\ local.id \notin SeqToSet(local'.rejected)
        /\ (pc = "transfer" /\ CodeReturned("accepted")) =>
            Moves(StoredFunds(local.id), StoredAuthor(local.id))
      ]_vars

C1_Witness ==
    /\ pc = "loop"
    /\ CodeReturned("accepted")
    /\ local.id \in write_log.block
    /\ storage.balances[StoredAuthor(local.id)] > 0

\* C2: a Passed proposal whose code is rejected or fails has its nested
\* transaction dropped, is pushed to `rejected` only, gets the event
\* (Passed, has_code, not accepted), its funds go to the treasury, and the
\* call goes on without returning an error.
C2_RejectedCode ==
    [][ /\ (pc = "match" /\ (CodeReturned("rejected") \/ CodeReturned("error"))) =>
            /\ write_log'.block = write_log.block
            /\ local.id \notin write_log'.block
            /\ write_log'.tx = {}
            /\ response' = Append(response,
                                  ProposalEvent("Passed", local.id, TRUE, FALSE))
            /\ local'.rejected = Append(local.rejected, local.id)
            /\ local'.passed = local.passed
            /\ local.id \notin SeqToSet(local'.passed)
            /\ pc' = "transfer" /\ ret' = NoRet
        /\ (pc = "transfer" /\ (CodeReturned("rejected") \/ CodeReturned("error"))) =>
            /\ Moves(StoredFunds(local.id), treasury_address)
            /\ pc' = "loop" /\ ret' = NoRet
        /\ (ret'.kind = "BadProposal") => "apply_tx" \notin OpsIn(trace', ret'.id)
      ]_vars

C2_Witness ==
    /\ pc = "loop"
    /\ CodeReturned("error")
    /\ local.id \in SeqToSet(local.rejected)
    /\ write_log.tx = {}
    /\ storage.balances[treasury_address] > 0

\* The loop is about to take an id whose mandatory fields are readable.
NextId == Head(local.drained)
AtReadable ==
    /\ pc = "loop"
    /\ local.drained # <<>>
    /\ IsSome(storage.funds[NextId])
    /\ IsSome(storage.start_epoch[NextId])

\* C3: for a Rejected or Unknown tally no code is dispatched (no marker, no
\* write-log operation), the id is pushed to `rejected`, the event has
\* has_code = false and code_accepted = false, and the funds go to the
\* treasury, whatever code or author is stored.
C3_NotPassed ==
    [][ /\ (AtReadable /\ TallyOf(NextId) \in {"Rejected", "Unknown"}) =>
            /\ storage' = storage
            /\ storage'.pending_execution = {}
            /\ write_log' = write_log
            /\ OpsIn(trace', NextId) = {"event", "rejected"}
            /\ Len(response') = Len(response) + 1
            /\ SubSeq(response', 1, Len(response)) = response
            /\ response'[Len(response')].proposal_id = NextId
            /\ response'[Len(response')].has_code = FALSE
            /\ response'[Len(response')].code_accepted = FALSE
            /\ local'.rejected = Append(local.rejected, NextId)
            /\ local'.passed = local.passed
            /\ pc' = "transfer"
        /\ (pc = "transfer" /\ TallyOf(local.id) \in {"Rejected", "Unknown"}) =>
            Moves(StoredFunds(local.id), treasury_address)
      ]_vars

C3_Witness ==
    /\ pc = "loop"
    /\ local.id \in Ids
    /\ TallyOf(local.id) = "Unknown"
    /\ IsSome(storage.code[local.id])
    /\ local.id \in SeqToSet(local.rejected)
    /\ storage.balances[treasury_address] > 0

\* C4: a Passed proposal without code has no transaction dispatched, is
\* pushed to `passed`, gets the event (Passed, no code, not accepted), and
\* its funds go to its author.
C4_PassedNoCode ==
    [][ /\ (/\ AtReadable
            /\ TallyOf(NextId) = "Passed"
            /\ IsSome(storage.author[NextId])
            /\ ~IsSome(storage.code[NextId])) =>
            /\ storage' = storage
            /\ write_log' = write_log
            /\ OpsIn(trace', NextId) = {"event", "passed"}
            /\ response' = Append(response,
                                  ProposalEvent("Passed", NextId, FALSE, FALSE))
            /\ local'.passed = Append(local.passed, NextId)
            /\ local'.rejected = local.rejected
            /\ pc' = "transfer"
        /\ (/\ pc = "transfer"
            /\ TallyOf(local.id) = "Passed"
            /\ ~IsSome(storage.code[local.id])) =>
            Moves(StoredFunds(local.id), StoredAuthor(local.id))
      ]_vars

C4_Witness ==
    /\ pc = "loop"
    /\ local.id \in Ids
    /\ TallyOf(local.id) = "Passed"
    /\ ~IsSome(storage.code[local.id])
    /\ local.id \in SeqToSet(local.passed)
    /\ storage.balances[StoredAuthor(local.id)] > 0

OkEmpty == [kind |-> "Ok", id |-> 0, passed |-> <<>>, rejected |-> <<>>]

\* C5: a call with new_epoch = false returns Ok with empty buckets at once
\* and leaves the pending set, the storage, the write log and the response
\* events as they were.
C5_NotEpochBoundary ==
    (pre.called /\ ~pre.new_epoch) =>
        /\ pc = "idle"
        /\ ret = OkEmpty
        /\ proposal_data = pre.proposal_data
        /\ storage = pre.storage
        /\ write_log = pre.write_log
        /\ response = pre.events

C5_Witness ==
    /\ pre.called
    /\ ~pre.new_epoch
    /\ ret.kind = "Ok"
    /\ proposal_data # <<>>

\* An epoch-boundary call has returned.
Done == pc = "idle" /\ pre.called /\ pre.new_epoch

Drained == SeqToSet(pre.proposal_data)

EventsFor(id) ==
    Cardinality({i \in 1..Len(response) :
                    i > Len(pre.events) /\ response[i].proposal_id = id})

BucketEntries(id) ==
    Cardinality({i \in 1..Len(trace) :
                    trace[i][2] = id /\ trace[i][1] \in {"passed", "rejected"}})

TransfersFor(id) ==
    Cardinality({i \in 1..Len(trace) :
                    trace[i][2] = id /\ trace[i][1] = "transfer"})

Returned(id) ==
    Cardinality({i \in 1..Len(ret.passed) : ret.passed[i] = id})
    + Cardinality({i \in 1..Len(ret.rejected) : ret.rejected[i] = id})

\* A field the pass needs for this id cannot be read.
Unreadable(id) ==
    \/ ~IsSome(storage.funds[id])
    \/ ~IsSome(storage.start_epoch[id])
    \/ (TallyOf(id) = "Passed" /\ ~IsSome(storage.author[id]))

IndexOf(seq, x) == CHOOSE i \in 1..Len(seq) : seq[i] = x

\* The ids the returned pass went through to the funds transfer.
SettledIds ==
    IF ret.kind = "Ok" THEN Drained
    ELSE {pre.proposal_data[i] :
            i \in 1..(IndexOf(pre.proposal_data, ret.id) - 1)}

RECURSIVE SumFunds(_)
SumFunds(S) ==
    IF S = {} THEN 0
    ELSE LET x == CHOOSE y \in S : TRUE
         IN StoredFunds(x) + SumFunds(S \ {x})

\* C6 as stated: every id pending at the call has, when the call returns,
\* exactly one event, one bucket entry and one funds transfer.
C6_EveryIdSettled ==
    Done => \A id \in Drained :
                /\ EventsFor(id) = 1
                /\ BucketEntries(id) = 1
                /\ TransfersFor(id) = 1

\* C6 amended: every pending id is processed at most once; the pass settles
\* (one event, one bucket entry, one transfer of the stored funds) exactly
\* the ids before the first one with an unreadable field, all of them when
\* there is none and the call returns Ok; the id BadProposal is returned for
\* and the ids after it are neither settled nor pending any more.
C6_SettledUpToFirstBad ==
    Done =>
        /\ proposal_data = <<>>
        /\ ret.kind \in {"Ok", "BadProposal"}
        /\ (ret.kind = "BadProposal") => (ret.id \in Drained /\ Unreadable(ret.id))
        /\ \A id \in SettledIds : ~Unreadable(id)
        /\ \A id \in Drained :
            LET n == IF id \in SettledIds THEN 1 ELSE 0 IN
            /\ EventsFor(id) = n
            /\ BucketEntries(id) = n
            /\ TransfersFor(id) = n
            /\ (ret.kind = "Ok") => (Returned(id) = 1)
        /\ storage.balances[gov_address]
             = pre.storage.balances[gov_address] - SumFunds(SettledIds)

C6_Witness ==
    /\ Done
    /\ ret.kind = "BadProposal"
    /\ SettledIds # {}
    /\ storage.balances[gov_address] < pre.storage.balances[gov_address]

\* C7: an epoch-boundary call leaves the pending set empty, so a call that
\* directly follows it in the same block emits no event, moves no funds and
\* returns empty buckets.
C7_SecondCallEmpty ==
    (pre.called /\ pre.follows_boundary_call) =>
        /\ pre.proposal_data = <<>>
        /\ response = pre.events
        /\ storage = pre.storage
        /\ (pc = "idle") => (ret = OkEmpty)

C7_Witness ==
    /\ pre.called
    /\ pre.follows_boundary_call
    /\ pre.new_epoch
    /\ pc = "idle"
    /\ ret = OkEmpty
    /\ pre.events # <<>>

RECURSIVE SumBalances(_, _)
SumBalances(bal, S) ==
    IF S = {} THEN 0
    ELSE LET x == CHOOSE y \in S : TRUE
         IN bal[x] + SumBalances(bal, S \ {x})

TotalSupply(st) == SumBalances(st.balances, Addresses)

\* C8: the transfer of a settled proposal moves exactly its stored funds
\* from the governance escrow to one destination, its author or the
\* treasury, and no step of a call changes the sum of all balances.
C8_FundsConserved ==
    [][ /\ (pc = "transfer") =>
            \E dest \in {treasury_address} \cup SeqToSet(storage.author[local.id]) :
                Moves(StoredFunds(local.id), dest)
        /\ (storage'.created = storage.created) =>
            (TotalSupply(storage') = TotalSupply(storage))
      ]_vars

C8_Witness ==
    /\ pc = "loop"
    /\ local.id \in Ids
    /\ storage.balances[treasury_address] > 0
    /\ \E a \in Authors : storage.balances[a] > 0
    /\ TransfersFor(local.id) = 1

\* C9: when the loop reaches an id whose funds or start_epoch cannot be
\* read, the call returns BadProposal for that id at once: nothing is
\* tallied, emitted, recorded, executed or transferred for it, and the ids
\* after it are dropped unprocessed.
C9_BadProposalAborts ==
    [][ (/\ pc = "loop"
         /\ local.drained # <<>>
         /\ (~IsSome(storage.funds[NextId]) \/ ~IsSome(storage.start_epoch[NextId]))) =>
            /\ ret' = [kind |-> "BadProposal", id |-> NextId,
                       passed |-> <<>>, rejected |-> <<>>]
            /\ pc' = "idle"
            /\ storage' = storage
            /\ write_log' = write_log
            /\ response' = response
            /\ \A j \in SeqToSet(local.drained) : OpsIn(trace', j) = {}
            /\ local'.drained = <<>>
            /\ proposal_data' = <<>>
      ]_vars

C9_Witness ==
    /\ Done
    /\ ret.kind = "BadProposal"
    /\ ~IsSome(storage.start_epoch[ret.id])
    /\ Len(pre.proposal_data) >= 2
    /\ pre.proposal_data[1] = ret.id

\* C10: the pending-execution marker of an id is in storage exactly from
\* just before its code is dispatched until just after the dispatch
\* returns, whatever the result, and no marker is left when the call returns.
C10_MarkerScoped ==
    /\ storage.pending_execution =
          (IF pc \in {"apply_tx", "delete"} THEN {local.id} ELSE {})
    /\ \A i \in 1..Len(trace) :
          /\ (trace[i][1] = "apply_tx") =>
                /\ i > 1 /\ trace[i - 1] = Op("marker_write", trace[i][2], 0, "-")
                /\ (i < Len(trace)) =>
                      (trace[i + 1] = Op("marker_delete", trace[i][2], 0, "-"))
          /\ (trace[i][1] = "marker_write" /\ i < Len(trace)) =>
                (trace[i + 1] = Op("apply_tx", trace[i][2], 0, "-"))

C10_Witness ==
    /\ pc = "delete"
    /\ local.tx_result = "error"
    /\ storage.pending_execution = {local.id}

LastOf(seq) == seq[Len(seq)]

\* The bucket entries pushed so far by the running call.
Pushed == local.passed \o local.rejected

\* C11: the funds transfer of a proposal happens once and last: the nested
\* transaction is closed and the event and bucket entry of the proposal are
\* recorded before it, nothing of the next proposal is touched before it,
\* and no other step moves funds.
C11_TransferLast ==
    [][ /\ (pc = "transfer") =>
            /\ write_log.tx = {}
            /\ storage.pending_execution = {}
            /\ LastOf(response).proposal_id = local.id
            /\ Cardinality({i \in 1..Len(Pushed) : Pushed[i] = local.id}) = 1
            /\ LastOf(trace)[1] \in {"passed", "rejected"}
            /\ LastOf(trace)[2] = local.id
            /\ TransfersFor(local.id) = 0
            /\ Moves(StoredFunds(local.id), local.transfer_address)
            /\ pc' = "loop"
            /\ local'.drained = local.drained
            /\ response' = response
            /\ write_log' = write_log
        /\ (pc # "transfer" /\ storage'.created = storage.created) =>
            storage'.balances = storage.balances
        /\ (pc = "loop" /\ local.id \in Ids) => TransfersFor(local.id) = 1
        /\ \A id \in Ids : TransfersFor(id) <= 1
      ]_vars

C11_Witness ==
    /\ pc = "loop"
    /\ local.id \in Ids
    /\ local.tx_result = "rejected"
    /\ local.drained # <<>>
    /\ TransfersFor(local.id) = 1

\* C12: when an epoch-boundary call returns Ok, the events it appended
\* carry the drained ids one for one in drain order, and every drained id
\* is exactly once in `passed` and `rejected` taken together.
C12_EventsFollowDrainOrder ==
    (Done /\ ret.kind = "Ok") =>
        /\ Len(response) = Len(pre.events) + Len(pre.proposal_data)
        /\ SubSeq(response, 1, Len(pre.events)) = pre.events
        /\ \A k \in 1..Len(pre.proposal_data) :
              response[Len(pre.events) + k].proposal_id = pre.proposal_data[k]
        /\ \A id \in Drained : Returned(id) = 1
        /\ Len(ret.passed) + Len(ret.rejected) = Len(pre.proposal_data)

C12_Witness ==
    /\ Done
    /\ ret.kind = "Ok"
    /\ Len(pre.proposal_data) = 2
    /\ pre.proposal_data[1] > pre.proposal_data[2]
    /\ ret.passed # <<>>
    /\ ret.rejected # <<>>

\* C13: a proposal with an Unknown tally is settled like a Rejected one (no
\* code run, pushed to `rejected`, funds to the treasury), but its event is
\* not the event the same proposal gets with a Rejected tally.
C13_UnknownDistinguishable ==
    (pc = "transfer" /\ TallyOf(local.id) = "Unknown") =>
        /\ local.transfer_address = treasury_address
        /\ LastOf(local.rejected) = local.id
        /\ "apply_tx" \notin OpsIn(trace, local.id)
        /\ LastOf(response) # ProposalEvent("Rejected", local.id, FALSE, FALSE)

\* What the code of a proposal reads through the write log when dispatched.
Visible(wl) == wl.block \cup wl.tx

\* The ids of this pass whose code ran and was accepted, or was not.
AcceptedSoFar == {id \in SeqToSet(local.passed) : IsSome(storage.code[id])}
RefusedSoFar ==
    {id \in SeqToSet(local.rejected) :
        TallyOf(id) = "Passed" /\ IsSome(storage.code[id])}

\* C19: the code of a proposal is dispatched on a write log that holds the
\* writes of every earlier proposal of the pass whose code was accepted and
\* none of an earlier one whose code was rejected or failed; once a proposal
\* is settled the write log holds no uncommitted transaction write.
C19_NoDiscardedWriteObserved ==
    [][ /\ (pc = "apply_tx") =>
            /\ write_log.tx = {}
            /\ AcceptedSoFar \subseteq Visible(write_log)
            /\ RefusedSoFar \cap Visible(write_log) = {}
        /\ (pc \in {"transfer", "loop", "idle"}) => write_log.tx = {}
      ]_vars

C19_Witness ==
    /\ pc = "apply_tx"
    /\ RefusedSoFar # {}
    /\ RefusedSoFar \cap Visible(write_log) = {}

\* C20: when a pass aborts with BadProposal, what the ids before the failing
\* one got is kept (events, committed writes, transfers), the pending set is
\* empty, and the failing id and the ids after it never become pending
\* again, so no call settles them and their funds stay in the escrow.
C20_AbortKeepsPrefixLosesRest ==
    [][ /\ (Done /\ ret.kind = "BadProposal") =>
            /\ proposal_data = <<>>
            /\ SubSeq(response, 1, Len(pre.events)) = pre.events
            /\ \A id \in SettledIds :
                  /\ EventsFor(id) = 1
                  /\ ("commit_tx" \in OpsIn(trace, id)) => id \in write_log.block
            /\ \A id \in Drained \ SettledIds : EventsFor(id) = 0
            /\ storage.balances[gov_address]
                 = pre.storage.balances[gov_address] - SumFunds(SettledIds)
            /\ SumFunds({id \in Drained \ SettledIds : IsSome(storage.funds[id])})
                 <= storage.balances[gov_address]
        /\ \A id \in storage.created :
              (pc = "idle" /\ id \notin SeqToSet(proposal_data)) =>
                  id \notin SeqToSet(proposal_data')
        /\ (pc = "transfer") => local.id \in Drained
      ]_vars

C20_Witness ==
    /\ Done
    /\ ret.kind = "BadProposal"
    /\ SettledIds # {}
    /\ response # <<>>
    /\ IsSome(storage.funds[ret.id])
    /\ storage.balances[gov_address] >= StoredFunds(ret.id)

(***************************************************************************)
(* Validation of validator set update vote extensions                      *)
(* (crates/ethereum_bridge/src/protocol/validation/validator_set_update.rs)*)
(***************************************************************************)
Validators == {"validator1", "validator2"}

\* An address that is no validator: storage holds no Ethereum hot key for it.
Stranger == "stranger"
Signers == Validators \cup {Stranger}

\* The Ethereum address book (hot and cold key address) of a validator, and
\* one that belongs to nobody.
BookOf(v) == IF v = "validator1" THEN "book1" ELSE "book2"
FabricatedBook == "book0"
Books == {BookOf(v) : v \in Validators} \cup {FabricatedBook}

PowerOf(v) == IF v = "validator1" THEN 2 ELSE 1
Powers == {PowerOf(v) : v \in Validators}

SigningEpochs == 0..MaxSigningEpoch
SnapshotEpochs == 0..(MaxSigningEpoch + 1)

\* Epoch::next
next(epoch) == epoch + 1

\* The consensus validators of an epoch, in the order storage yields them.
ConsensusSets ==
    {<<"validator1">>, <<"validator1", "validator2">>, <<"validator2", "validator1">>}

\* pos_queries().read_validator_eth_hot_key: every validator, in the
\* consensus set or not, has a hot key; validator1 rotated its key at epoch 1.
read_validator_eth_hot_key(validator, epoch) ==
    IF validator = "validator1" THEN Some(IF epoch = 0 THEN "key1a" ELSE "key1b")
    ELSE IF validator = "validator2" THEN Some("key2")
    ELSE None

Keys == {"key1a", "key1b", "key2"}

\* A signature over the data of the extension is named by the key that made
\* it; "forged" verifies against no key.
Sigs == Keys \cup {"forged"}
verify(ext, pk) == ext.sig = pk

\* ethbridge_queries().valset_upd_seen
valset_upd_seen(st, epoch) == epoch \in st.valset_upd_seen

\* ethbridge_queries().get_consensus_eth_addresses(Some(epoch))
get_consensus_eth_addresses(st, epoch) ==
    [i \in 1..Len(st.consensus[epoch]) |->
        <<BookOf(st.consensus[epoch][i]), st.consensus[epoch][i],
          PowerOf(st.consensus[epoch][i])>>]

VotingPowersMaps == UNION {[B -> Powers] : B \in SUBSET Books}

Exts ==
    {[data |-> [signing_epoch |-> e, validator_addr |-> v, voting_powers |-> m],
      sig |-> g] :
        e \in SigningEpochs, v \in Signers, m \in VotingPowersMaps, g \in Sigs}

\* signing_epoch > last_epoch
epoch_exceeds(signing_epoch, last_epoch) == signing_epoch > last_epoch

\* The epoch whose proof is looked up: signing_epoch.next()
proof_epoch_is_signing_epoch(signing_epoch) == signing_epoch
proof_epoch(signing_epoch) == next(signing_epoch)

\* namada_power != ext_power
power_diverges_never(namada_power, ext_power) == FALSE
power_diverges(namada_power, ext_power) == namada_power # ext_power

\* no_local_consensus_eth_addresses != ext.data.voting_powers.len()
superset_only_if_fewer(no_local, len) == no_local > len
superset(no_local, len) == no_local # len

\* All entries are looked up before any power is compared.
scan_missing_first(entries, voting_powers, n) ==
    IF \E i \in 1..Len(entries) : entries[i][1] \notin DOMAIN voting_powers
    THEN [err |-> "ValidatorMissingFromExtension", n |-> n]
    ELSE IF \E i \in 1..Len(entries) :
                power_diverges(entries[i][3], voting_powers[entries[i][1]])
    THEN [err |-> "DivergesFromStorage", n |-> n]
    ELSE [err |-> "-", n |-> n + Len(entries)]

\* The for loop over the snapshot entries, lines 67-94: the error it returns
\* with, or the number of entries it matched.
RECURSIVE scan(_, _, _)
scan(entries, voting_powers, n) ==
    IF entries = <<>> THEN [err |-> "-", n |-> n]
    ELSE LET eth_addr_book == Head(entries)[1]
             namada_power == Head(entries)[3]
         IN IF eth_addr_book \notin DOMAIN voting_powers
            THEN [err |-> "ValidatorMissingFromExtension", n |-> n]
            ELSE IF power_diverges(namada_power, voting_powers[eth_addr_book])
            THEN [err |-> "DivergesFromStorage", n |-> n]
            ELSE scan(Tail(entries), voting_powers, n + 1)

validate_valset_upd_vext(st, ext, last_epoch) ==
    LET signing_epoch == ext.data.signing_epoch
        voting_powers == ext.data.voting_powers
        validator == ext.data.validator_addr
        scanned == scan(get_consensus_eth_addresses(st, next(signing_epoch)),
                        voting_powers, 0)
        pk == read_validator_eth_hot_key(validator, signing_epoch)
    IN
    IF ~st.last_block THEN "UnexpectedBlockHeight"
    ELSE IF epoch_exceeds(signing_epoch, last_epoch) THEN "UnexpectedEpoch"
    ELSE IF valset_upd_seen(st, proof_epoch(signing_epoch))
    THEN "ValsetUpdProofAvailable"
    ELSE IF scanned.err # "-" THEN scanned.err
    ELSE IF superset(scanned.n, Cardinality(DOMAIN voting_powers))
    THEN "ExtraValidatorsInExtension"
    ELSE IF ~IsSome(pk) THEN "PubKeyNotInStorage"
    ELSE IF ~verify(ext, Unwrap(pk)) THEN "VerifySigFailed"
    ELSE "Ok"

\* The chain is at genesis, with the validator sets of all epochs bonded.
InitVext ==
    /\ InitShell
    /\ wl_storage \in {[last_block |-> FALSE, valset_upd_seen |-> {}, consensus |-> c] :
                         c \in [SnapshotEpochs -> ConsensusSets]}
    /\ vcall = NoVext

\* The first block is committed.
CommitBlock ==
    /\ ~wl_storage.last_block
    /\ wl_storage' = [wl_storage EXCEPT !.last_block = TRUE]
    /\ vcall' = NoVext
    /\ UNCHANGED shell_vars

\* A validator set update proof for an epoch is recorded as seen.
RecordProof ==
    /\ \E e \in SnapshotEpochs \ ({0} \cup wl_storage.valset_upd_seen) :
          wl_storage' = [wl_storage EXCEPT !.valset_upd_seen = @ \cup {e}]
    /\ vcall' = NoVext
    /\ UNCHANGED shell_vars

\* An extension comes in and is validated; the verdict of one call is held
\* at a time.
Validate ==
    /\ ~vcall.called
    /\ \E ext \in Exts, last_epoch \in SigningEpochs :
          vcall' = [called |-> TRUE, ext |-> ext, last_epoch |-> last_epoch,
                    result |-> validate_valset_upd_vext(wl_storage, ext, last_epoch)]
    /\ UNCHANGED wl_storage
    /\ UNCHANGED shell_vars

\* The caller takes the verdict.
Verdict ==
    /\ vcall.called
    /\ vcall' = NoVext
    /\ UNCHANGED wl_storage
    /\ UNCHANGED shell_vars

NextVext ==
    \/ CommitBlock
    \/ RecordProof
    \/ Validate
    \/ Verdict

SpecVext == InitVext /\ [][NextVext]_vars

(***************************************************************************)
(* Properties of validate_valset_upd_vext.  The storage a verdict was      *)
(* computed on is the current one: every change of storage clears vcall.   *)
(***************************************************************************)
ExtSigningEpoch == vcall.ext.data.signing_epoch
ExtVotingPowers == vcall.ext.data.voting_powers
ExtSigner == vcall.ext.data.validator_addr

\* The consensus validators of an epoch and, as a map from address book to
\* voting power, what storage records for them.
ConsensusAt(epoch) == SeqToSet(wl_storage.consensus[epoch])
SnapshotPowers(epoch) ==
    [b \in {BookOf(v) : v \in ConsensusAt(epoch)} |->
        PowerOf(CHOOSE v \in ConsensusAt(epoch) : BookOf(v) = b)]
NextSnapshot == SnapshotPowers(ExtSigningEpoch + 1)

\* Position i of the snapshot, in snapshot order, is absent from the map or
\* has another power in it.
EntryBook(i) == BookOf(wl_storage.consensus[ExtSigningEpoch + 1][i])
EntryPower(i) == PowerOf(wl_storage.consensus[ExtSigningEpoch + 1][i])
EntryAbsent(i) == EntryBook(i) \notin DOMAIN ExtVotingPowers
EntryBad(i) == EntryAbsent(i) \/ ExtVotingPowers[EntryBook(i)] # EntryPower(i)
SnapshotIndices == 1..Len(wl_storage.consensus[ExtSigningEpoch + 1])
FirstBadEntry ==
    CHOOSE i \in SnapshotIndices :
        EntryBad(i) /\ \A j \in SnapshotIndices : EntryBad(j) => i <= j

ContainsSnapshot == \A i \in SnapshotIndices : ~EntryBad(i)
IsSnapshot == ContainsSnapshot /\ DOMAIN ExtVotingPowers = DOMAIN NextSnapshot

\* The call got past the genesis, epoch and proof-available checks.
PassesEarlyChecks ==
    /\ vcall.called
    /\ wl_storage.last_block
    /\ ExtSigningEpoch <= vcall.last_epoch
    /\ (ExtSigningEpoch + 1) \notin wl_storage.valset_upd_seen

SignerKey == read_validator_eth_hot_key(ExtSigner, ExtSigningEpoch)
CorrectlySigned == IsSome(SignerKey) /\ vcall.ext.sig = Unwrap(SignerKey)

\* C14: an extension that passes the genesis, epoch and proof-available
\* checks and whose map holds every consensus validator of
\* signing_epoch.next() with its snapshot power plus at least one further
\* entry is rejected with ExtraValidatorsInExtension, whatever the further
\* entry claims and whoever signed.
C14_SupersetRejected ==
    (PassesEarlyChecks /\ ContainsSnapshot
        /\ DOMAIN ExtVotingPowers # DOMAIN NextSnapshot)
    => vcall.result = "ExtraValidatorsInExtension"

\* A correctly signed extension padded with one fabricated entry is refused.
C14_Witness ==
    /\ PassesEarlyChecks
    /\ ContainsSnapshot
    /\ DOMAIN ExtVotingPowers = DOMAIN NextSnapshot \cup {FabricatedBook}
    /\ CorrectlySigned
    /\ vcall.result = "ExtraValidatorsInExtension"

\* C15: Ok is returned only for an extension whose map is exactly the
\* consensus validator set of signing_epoch.next(): the same address books
\* and, for each, the snapshot power.
C15_OkOnlyForExactSnapshot ==
    (vcall.called /\ vcall.result = "Ok")
    => /\ DOMAIN ExtVotingPowers = DOMAIN NextSnapshot
       /\ \A b \in DOMAIN NextSnapshot : ExtVotingPowers[b] = NextSnapshot[b]

\* An extension naming both validators of a two-validator set is accepted.
C15_Witness ==
    /\ vcall.called
    /\ vcall.result = "Ok"
    /\ Cardinality(DOMAIN NextSnapshot) = 2
    /\ ExtVotingPowers = NextSnapshot

\* C16: the checks run in a fixed order and the error of the first failing
\* one is returned: UnexpectedBlockHeight, UnexpectedEpoch,
\* ValsetUpdProofAvailable, the scan (the error of the first snapshot entry,
\* in snapshot order, that is absent or has another power),
\* ExtraValidatorsInExtension, PubKeyNotInStorage, VerifySigFailed.
C16_FirstFailingCheck ==
    vcall.called =>
        vcall.result =
            IF ~wl_storage.last_block THEN "UnexpectedBlockHeight"
            ELSE IF ExtSigningEpoch > vcall.last_epoch THEN "UnexpectedEpoch"
            ELSE IF (ExtSigningEpoch + 1) \in wl_storage.valset_upd_seen
            THEN "ValsetUpdProofAvailable"
            ELSE IF ~ContainsSnapshot
            THEN (IF EntryAbsent(FirstBadEntry)
                  THEN "ValidatorMissingFromExtension"
                  ELSE "DivergesFromStorage")
            ELSE IF DOMAIN ExtVotingPowers # DOMAIN NextSnapshot
            THEN "ExtraValidatorsInExtension"
            ELSE IF ~IsSome(SignerKey) THEN "PubKeyNotInStorage"
            ELSE IF vcall.ext.sig # Unwrap(SignerKey) THEN "VerifySigFailed"
            ELSE "Ok"

\* The first snapshot entry has another power in the map and the second is
\* absent from it: the first one's error is returned.
C16_Witness ==
    /\ PassesEarlyChecks
    /\ Len(wl_storage.consensus[ExtSigningEpoch + 1]) = 2
    /\ ~EntryAbsent(1)
    /\ EntryBad(1)
    /\ EntryAbsent(2)
    /\ vcall.result = "DivergesFromStorage"

C18_SignerIsConsensusValidator ==
    (vcall.called /\ vcall.result = "Ok")
    => /\ ExtSigner \in ConsensusAt(ExtSigningEpoch)
       /\ CorrectlySigned

====
